---------------------------- MODULE Spec2Model ----------------------------
(***************************************************************************)
(* Model of the desktop-blur overlay: main() of                            *)
(* render/no-eyetracking-render-loop.py together with the parts of         *)
(* render/dxgi_capture.py and render/render_blur.py that main drives.      *)
(*                                                                         *)
(* main is a sequential program; pc is its position.  The environment is   *)
(* the capture backend (which frame, if any, a capture call yields), the   *)
(* operating system (whether GLFW, the window, the affinity flag and the   *)
(* shader compiler succeed) and the user (who may ask the window to        *)
(* close at any moment).                                                   *)
(***************************************************************************)
EXTENDS Integers, Sequences, FiniteSets, TLC

\* ------------------------------------------------------------------ bounds

\* Number of non-None frames the capture backend delivers in one run.
MaxFrames == 3

\* Frame and window extents are drawn from 1..MaxDim.
MaxDim == 2

\* Ticks of the discrete clock in one second.
TicksPerSecond == 6

\* Longest time, in ticks, the capture, the blur and the present of one
\* iteration take together.
MaxWork == 8

\* Longest time, in ticks, by which time.sleep overshoots.
MaxOversleep == 1

\* Largest configured target_fps.
MaxFps == 4

\* Most calls of each kind a client makes on one renderer.
MaxCalls == 2

\* Most key = value lines of a settings file.
MaxLines == 2

\* Largest value of a colour channel of a texel (255 in an RGB8 texture).
MaxLevel == 8

\* Largest blur radius of a channel.
MaxRadius == 1

\* ---------------------------------------------------------------- constants

GL_RGB  == "GL_RGB"
GL_BGR  == "GL_BGR"
GL_RGBA == "GL_RGBA"
GL_BGRA == "GL_BGRA"

Dims == 1..MaxDim

\* (width, height) pairs a frame or the overlay_size setting can have.
Sizes == {<<1, 1>>, <<MaxDim, 1>>, <<1, MaxDim>>}

\* The shapes numpy arrays coming out of the camera can have: a 2-D array
\* (no channel axis, ch = 0) or a 3-D array with 1, 3 or 4 channels.
RawShapes ==
    {[ndim |-> 2, ch |-> 0, w |-> s[1], h |-> s[2]] : s \in Sizes}
    \cup {[ndim |-> 3, ch |-> c, w |-> s[1], h |-> s[2]] : c \in {1, 3, 4}, s \in Sizes}

\* Python's None for a frame variable.
None == [id |-> 0, ndim |-> 0, ch |-> 0, w |-> 0, h |-> 0, hasOverlay |-> FALSE]

IsNone(f) == f.id = 0

VARIABLES
    \* settings handed to main by unpack_settings
    force_rgb, capture_format, overlay_size,
    \* control state of main
    pc, exc,
    \* GLFW / window / Win32
    glfw_state, window, win_size, hwnd, excluded, closeRequested, should_close,
    \* module-level capture instance of dxgi_capture.py
    _capture,
    \* locals of main
    first, frame, input_format, cap_w, cap_h, blur_renderer, display_prog, out_tex,
    \* what is on screen
    overlayShown,
    \* history (observation only)
    nframes, log, skipArg, negotiations, constructions, released, closeSeen,
    \* frame pacing of the render loop (ticks of a discrete clock)
    target_fps, pace_pc, elapsed, presented, period, periodPresented,
    \* a GaussianBlurRenderer (eng), the GL context it lives in (gl), its
    \* client's position (rend_pc), the last value process returned (ret)
    \* and the calls made so far (rhist)
    gl, eng, rend_pc, ret, rhist,
    \* the settings dictionary load_settings builds, the lines read so far,
    \* the loader's position and what unpack_settings returned
    settings, nlines, set_pc, unpacked,
    \* one colour channel on its way through the two blur passes
    conv,
    \* dxgi_capture.py on its own: the module-level _capture (cap), a
    \* DXCamCapture driven directly (inst), the last return value and the
    \* calls made so far
    dx,
    \* one renderer inside a process or upload_frame call: the position in
    \* the call, the GL bindings, what each texture holds and the call's
    \* arguments and result
    pass

settingsVars == <<force_rgb, capture_format, overlay_size>>
histVars == <<nframes, log, skipArg, negotiations, constructions, released, closeSeen>>

mainVars == <<force_rgb, capture_format, overlay_size, pc, exc, glfw_state, window,
          win_size, hwnd, excluded, closeRequested, should_close, _capture,
          first, frame, input_format, cap_w, cap_h, blur_renderer, display_prog,
          out_tex, overlayShown, nframes, log, skipArg, negotiations,
          constructions, released, closeSeen>>

paceVars == <<target_fps, pace_pc, elapsed, presented, period, periodPresented>>

\* The variables of the component specifications, which main leaves alone.
rendVars == <<gl, eng, rend_pc, ret, rhist>>

loadVars == <<settings, nlines, set_pc, unpacked>>

compVars == <<paceVars, rendVars, loadVars, conv, dx, pass>>

\* What the frame-pacing specification leaves alone.
outsidePace == <<mainVars, rendVars, loadVars, conv, dx, pass>>

\* What the renderer specification leaves alone.
outsideRend == <<mainVars, paceVars, loadVars, conv, dx, pass>>

\* What the settings specification leaves alone.
outsideLoad == <<mainVars, paceVars, rendVars, conv, dx, pass>>

\* What the convolution specification leaves alone.
outsideConv == <<mainVars, paceVars, rendVars, loadVars, dx, pass>>

\* What the capture-module specification leaves alone.
outsideDx == <<mainVars, paceVars, rendVars, loadVars, conv, pass>>

\* What the pass specification leaves alone.
outsidePass == <<mainVars, paceVars, rendVars, loadVars, conv, dx>>

vars == <<mainVars, compVars>>

FrameIds == 1..MaxFrames

NoLog == [captured |-> "no", ndim |-> 0, ch |-> 0,
          processed |-> 0, passes |-> 0, presented |-> 0]

NoRenderer == [state |-> "none", w |-> 0, h |-> 0, input_format |-> "unset"]

NoCapture == [live |-> FALSE, camera |-> FALSE, running |-> FALSE, target_fps |-> 0]

Resources == {"blur_renderer", "display_prog", "vao", "window", "glfw"}

\* ------------------------------------------------------ dxgi_capture.py

\* DXCamCapture.__init__: a fresh, unstarted instance (target_fps 0 is None).
DXCamCapture(fps) == [live |-> TRUE, camera |-> FALSE, running |-> FALSE, target_fps |-> fps]

\* DXCamCapture.start when dxcam.create returned a camera.
DXCamCapture_start(inst) ==
    [inst EXCEPT !.camera = TRUE, !.running = (inst.target_fps # 0)]

\* The channel-order conversion of DXCamCapture.get_frame: the shape that
\* leaves get_frame for a raw shape, or "error" where cv2.cvtColor raises.
ConvertShape(raw, rgb) ==
    IF ~rgb THEN raw
    ELSE IF raw.ndim = 3 /\ raw.ch \in {3, 4} THEN [raw EXCEPT !.ch = 3]
    ELSE [raw EXCEPT !.ndim = 0]

ConvertRaises(raw, rgb) == ConvertShape(raw, rgb).ndim = 0

\* What the desktop duplication shows of the overlay: the window is
\* left out of the desktop image only if its display affinity was set.
OverlayCaptured(shown, excl) == shown /\ ~excl

MkFrame(id, shape, shown, excl) ==
    [id |-> id, ndim |-> shape.ndim, ch |-> shape.ch, w |-> shape.w, h |-> shape.h,
     hasOverlay |-> OverlayCaptured(shown, excl)]

\* capture_desktop_excluding_hwnd(rgb=rgb): every outcome the call can have
\* from module state cap.  kind is "raise" (start or the conversion raised),
\* "none" (no frame yet) or "frame".  more says whether the backend still has
\* a fresh frame to deliver.
CaptureOutcomes(cap, rgb, shown, excl, id, more) ==
    LET started == IF cap.live THEN {cap} ELSE {DXCamCapture_start(DXCamCapture(0))}
        failed  == IF cap.live THEN {} ELSE {DXCamCapture(0)}
    IN  {[cap |-> c, kind |-> "raise", exn |-> "RuntimeError", frame |-> None] : c \in failed}
        \cup {[cap |-> c, kind |-> "none", exn |-> "none", frame |-> None] : c \in started}
        \cup {[cap |-> c, kind |-> "raise", exn |-> "cv2.error", frame |-> None] :
                 c \in {x \in started : x.camera /\ more
                                         /\ \E raw \in RawShapes : ConvertRaises(raw, rgb)}}
        \cup {[cap |-> c, kind |-> "frame", exn |-> "none",
               frame |-> MkFrame(id, ConvertShape(raw, rgb), shown, excl)] :
                 c \in {x \in started : x.camera /\ more},
                 raw \in {r \in RawShapes : ~ConvertRaises(r, rgb)}}

\* ------------------------------------------------ render_blur.py (upload)

\* GaussianBlurRenderer.upload_frame: "ok" or the reason it raises ValueError.
UploadResult(r, f) ==
    IF IsNone(f) THEN "none"
    ELSE IF f.ndim # 3 \/ f.ch \notin {3, 4} THEN "shape"
    ELSE IF f.h # r.h \/ f.w # r.w THEN "size"
    ELSE IF f.ch = 3 /\ r.input_format \notin {GL_RGB, GL_BGR} THEN "format3"
    ELSE IF f.ch = 4 /\ r.input_format \notin {GL_RGBA, GL_BGRA} THEN "format4"
    ELSE "ok"

\* ------------------------------------------- no-eyetracking-render-loop.py

\* _attempt_exclude_from_capture(hwnd); affinityOK is what
\* SetWindowDisplayAffinity answers.
attempt_exclude_from_capture(h, affinityOK) ==
    IF h = 0 THEN FALSE ELSE affinityOK

\* Mutant: the channel-count test of the first-frame validation is dropped.
FirstFrameValid_anyChannels(f) == f.ndim = 3

\* The first-frame validation of main.
FirstFrameValid(f) == f.ndim = 3 /\ f.ch \in {3, 4}

\* The negotiated input_format.
InputFormatFor(fmt, ch) ==
    IF fmt = "bgr" THEN (IF ch = 4 THEN GL_BGRA ELSE GL_BGR)
    ELSE (IF ch = 4 THEN GL_RGBA ELSE GL_RGB)

\* Mutant: the window is resized to the capture resolution.
NegotiatedWindowSize_capture(size, w, h) == <<w, h>>

\* The size main gives the window once the capture resolution is known.
NegotiatedWindowSize(size, w, h) == size

\* Mutant: the per-frame format check lets every frame through.
LoopFormatOK_unchecked(f) == TRUE

\* The per-frame format check of the running loop.
LoopFormatOK(f) == f.ndim = 3 /\ f.ch = 3

\* The handle main passes to the capture call for it to skip: the call
\* takes no handle, whatever the exclusion status.
CaptureSkipArg(h, excl) == 0

\* glfw.poll_events(): a pending close request sets the window's close flag.
PollEvents == should_close' = (should_close \/ closeRequested)

TypeOK ==
    /\ force_rgb \in BOOLEAN
    /\ capture_format \in {"bgr", "rgb"}
    /\ overlay_size \in Sizes
    /\ pc \in {"start", "create_window", "exclude", "await_top", "await_capture",
               "first_check", "build_renderer", "build_display", "loop_top",
               "capture", "validate", "process", "present", "finally",
               "done", "raised"}
    /\ nframes \in 0..MaxFrames
    /\ excluded \in BOOLEAN
    /\ should_close \in BOOLEAN

\* The locals and the environment of main as main starts.
MainStart ==
    /\ pc = "start"
    /\ exc = "none"
    /\ glfw_state = "off"
    /\ window = "none"
    /\ win_size = <<0, 0>>
    /\ hwnd = 0
    /\ excluded = FALSE
    /\ closeRequested = FALSE
    /\ should_close = FALSE
    /\ _capture = NoCapture
    /\ first = None
    /\ frame = None
    /\ input_format = "unset"
    /\ cap_w = 0
    /\ cap_h = 0
    /\ blur_renderer = NoRenderer
    /\ display_prog = "none"
    /\ out_tex = "none"
    /\ overlayShown = FALSE
    /\ nframes = 0
    /\ log = [i \in FrameIds |-> NoLog]
    /\ skipArg = {}
    /\ negotiations = 0
    /\ constructions = 0
    /\ released = [r \in Resources |-> 0]
    /\ closeSeen = FALSE

\* main is not running (the state the component specifications keep it in).
MainIdle ==
    /\ force_rgb = FALSE
    /\ capture_format = "rgb"
    /\ overlay_size = <<1, 1>>
    /\ MainStart

\* The pacing clock is not running.
PaceIdle ==
    /\ target_fps = [num |-> 0, den |-> 1]
    /\ pace_pc = "idle"
    /\ elapsed = 0
    /\ presented = FALSE
    /\ period = 0
    /\ periodPresented = FALSE

\* No GL object exists.
NoGL == [nextId |-> 1, textures |-> {}, fbos |-> {}, programs |-> {}, vaos |-> {},
         uniforms |-> <<>>, deletes |-> 0, error |-> FALSE]

\* No renderer has been constructed.  state and exc are observations: state
\* tells whether the objects were created and deleted, exc what the last
\* call raised.
NoEngine == [state |-> "none", w |-> 0, h |-> 0, input_format |-> "unset",
             vao |-> 0, prog_h |-> 0, prog_v |-> 0,
             tex_in |-> 0, tex_temp |-> 0, tex_out |-> 0,
             fbo_temp |-> 0, fbo_out |-> 0, _upload_count |-> 0, exc |-> "none"]

NoParams == [radius |-> <<>>, sigma |-> <<>>]

NoCalls == [main |-> NoParams, last |-> NoParams, first |-> NoParams,
            firstAt |-> 0, setCalls |-> 0, processed |-> 0, readbacks |-> 0, cleanups |-> 0]

RendIdle ==
    /\ gl = NoGL
    /\ eng = NoEngine
    /\ rend_pc = "idle"
    /\ ret = 0
    /\ rhist = NoCalls

LoadIdle ==
    /\ settings = <<>>
    /\ nlines = 0
    /\ set_pc = "idle"
    /\ unpacked = <<>>

ConvIdle == conv = [pc |-> "idle"]

DxIdle == dx = [pc |-> "idle"]

PassIdle == pass = [pc |-> "off"]

Init ==
    /\ force_rgb \in BOOLEAN
    /\ capture_format \in {"bgr", "rgb"}
    /\ overlay_size \in Sizes
    /\ MainStart
    /\ PaceIdle
    /\ RendIdle
    /\ LoadIdle
    /\ ConvIdle
    /\ DxIdle
    /\ PassIdle

\* main, lines 207-211: glfw.init().
GlfwInit ==
    /\ pc = "start"
    /\ \E ok \in BOOLEAN :
          IF ok
          THEN glfw_state' = "on" /\ pc' = "create_window" /\ exc' = exc
          ELSE glfw_state' = glfw_state /\ pc' = "raised" /\ exc' = "RuntimeError"
    /\ UNCHANGED compVars
    /\ UNCHANGED <<settingsVars, window, win_size, hwnd, excluded, closeRequested,
                   should_close, _capture, first, frame, input_format, cap_w, cap_h,
                   blur_renderer, display_prog, out_tex, overlayShown, histVars>>

\* main, lines 213-226: glfw.create_window(overlay_size...).
CreateWindow ==
    /\ pc = "create_window"
    /\ \E ok \in BOOLEAN :
          IF ok
          THEN /\ window' = "open"
               /\ win_size' = overlay_size
               /\ pc' = "exclude"
               /\ UNCHANGED <<glfw_state, exc, released>>
          ELSE /\ glfw_state' = "terminated"
               /\ released' = [released EXCEPT !["glfw"] = @ + 1]
               /\ pc' = "raised"
               /\ exc' = "RuntimeError"
               /\ UNCHANGED <<window, win_size>>
    /\ UNCHANGED compVars
    /\ UNCHANGED <<settingsVars, hwnd, excluded, closeRequested, should_close,
                   _capture, first, frame, input_format, cap_w, cap_h, blur_renderer,
                   display_prog, out_tex, overlayShown, nframes, log, skipArg,
                   negotiations, constructions, closeSeen>>

\* Mutant: a failed exclusion attempt is treated as a fatal startup error.
SetupOverlay_fatalOnFailure ==
    /\ pc = "exclude"
    /\ \E h \in {0, 1}, affinityOK \in BOOLEAN :
          /\ hwnd' = h
          /\ excluded' = attempt_exclude_from_capture(h, affinityOK)
    /\ IF excluded'
       THEN pc' = "await_top" /\ exc' = exc
       ELSE pc' = "raised" /\ exc' = "RuntimeError"
    /\ UNCHANGED compVars
    /\ UNCHANGED <<settingsVars, glfw_state, window, win_size, closeRequested,
                   should_close, _capture, first, frame, input_format, cap_w, cap_h,
                   blur_renderer, display_prog, out_tex, overlayShown, histVars>>

\* main, lines 228-241: the window handle, the overlay styles and the
\* exclusion attempt.
SetupOverlay ==
    /\ pc = "exclude"
    /\ \E h \in {0, 1}, affinityOK \in BOOLEAN :
          /\ hwnd' = h
          /\ excluded' = attempt_exclude_from_capture(h, affinityOK)
    /\ pc' = "await_top"
    /\ UNCHANGED compVars
    /\ UNCHANGED <<settingsVars, exc, glfw_state, window, win_size, closeRequested,
                   should_close, _capture, first, frame, input_format, cap_w, cap_h,
                   blur_renderer, display_prog, out_tex, overlayShown, histVars>>

\* The outcomes of the capture call main makes in the current state.
MainCapture ==
    CaptureOutcomes(_capture, force_rgb, overlayShown, excluded, nframes + 1,
                    nframes < MaxFrames)

\* Bookkeeping of one capture call with outcome o made from loop "await" or "loop".
NoteCapture(o, where) ==
    /\ _capture' = o.cap
    /\ skipArg' = skipArg \cup {CaptureSkipArg(hwnd, excluded)}
    /\ IF o.kind = "frame"
       THEN /\ nframes' = nframes + 1
            /\ log' = [log EXCEPT ![o.frame.id] =
                          [@ EXCEPT !.captured = where, !.ndim = o.frame.ndim,
                                    !.ch = o.frame.ch]]
       ELSE UNCHANGED <<nframes, log>>

\* main, line 246: the condition of the first-frame wait loop.
AwaitTop ==
    /\ pc = "await_top"
    /\ IF IsNone(first) /\ ~should_close
       THEN pc' = "await_capture"
       ELSE pc' = "first_check"
    /\ closeSeen' = (closeSeen \/ (IsNone(first) /\ should_close))
    /\ UNCHANGED compVars
    /\ UNCHANGED <<settingsVars, exc, glfw_state, window, win_size, hwnd, excluded,
                   closeRequested, should_close, _capture, first, frame, input_format,
                   cap_w, cap_h, blur_renderer, display_prog, out_tex, overlayShown,
                   nframes, log, skipArg, negotiations, constructions, released>>

\* main, lines 247-249: one pass of the first-frame wait loop.
AwaitCapture ==
    /\ pc = "await_capture"
    /\ \E o \in MainCapture :
          /\ NoteCapture(o, "await")
          /\ IF o.kind = "raise"
             THEN /\ pc' = "raised"
                  /\ exc' = o.exn
                  /\ UNCHANGED <<first, should_close>>
             ELSE /\ first' = o.frame
                  /\ PollEvents
                  /\ pc' = "await_top"
                  /\ exc' = exc
    /\ UNCHANGED compVars
    /\ UNCHANGED <<settingsVars, glfw_state, window, win_size, hwnd, excluded,
                   closeRequested, frame, input_format, cap_w, cap_h, blur_renderer,
                   display_prog, out_tex, overlayShown, negotiations, constructions,
                   released, closeSeen>>

\* main, lines 251-279: the no-frame exit, the first-frame validation and the
\* negotiation of input_format, cap_w, cap_h and the window geometry.
FirstCheck ==
    /\ pc = "first_check"
    /\ IF IsNone(first) \/ ~FirstFrameValid(first)
       THEN /\ window' = "destroyed"
            /\ glfw_state' = "terminated"
            /\ released' = [released EXCEPT !["window"] = @ + 1, !["glfw"] = @ + 1]
            /\ pc' = "done"
            /\ UNCHANGED <<input_format, cap_w, cap_h, win_size, negotiations>>
       ELSE /\ input_format' = InputFormatFor(capture_format, first.ch)
            /\ cap_w' = first.w
            /\ cap_h' = first.h
            /\ win_size' = NegotiatedWindowSize(overlay_size, first.w, first.h)
            /\ negotiations' = negotiations + 1
            /\ pc' = "build_renderer"
            /\ UNCHANGED <<window, glfw_state, released>>
    /\ UNCHANGED compVars
    /\ UNCHANGED <<settingsVars, exc, hwnd, excluded, closeRequested, should_close,
                   _capture, first, frame, blur_renderer, display_prog, out_tex,
                   overlayShown, nframes, log, skipArg, constructions, closeSeen>>

\* main, lines 281-283: GaussianBlurRenderer(cap_w, cap_h, path, input_format)
\* and set_params.  The constructor raises when the shader file is missing
\* (before any GL object exists) or when a program fails to compile or link
\* (after the VAO was generated).
BuildRenderer ==
    /\ pc = "build_renderer"
    /\ \E r \in {"ok", "missing", "compile"} :
          IF r = "ok"
          THEN /\ blur_renderer' = [state |-> "built", w |-> cap_w, h |-> cap_h,
                                    input_format |-> input_format]
               /\ constructions' = constructions + 1
               /\ pc' = "build_display"
               /\ exc' = exc
          ELSE /\ blur_renderer' = [NoRenderer EXCEPT
                                      !.state = IF r = "compile" THEN "partial" ELSE "none"]
               /\ constructions' = constructions
               /\ pc' = "raised"
               /\ exc' = IF r = "compile" THEN "RuntimeError" ELSE "FileNotFoundError"
    /\ UNCHANGED compVars
    /\ UNCHANGED <<settingsVars, glfw_state, window, win_size, hwnd, excluded,
                   closeRequested, should_close, _capture, first, frame, input_format,
                   cap_w, cap_h, display_prog, out_tex, overlayShown, nframes, log,
                   skipArg, negotiations, released, closeSeen>>

\* main, lines 285-297: the display shader and its VAO.
BuildDisplay ==
    /\ pc = "build_display"
    /\ \E ok \in BOOLEAN :
          IF ok
          THEN display_prog' = "built" /\ pc' = "loop_top" /\ exc' = exc
          ELSE display_prog' = display_prog /\ pc' = "raised" /\ exc' = "RuntimeError"
    /\ UNCHANGED compVars
    /\ UNCHANGED <<settingsVars, glfw_state, window, win_size, hwnd, excluded,
                   closeRequested, should_close, _capture, first, frame, input_format,
                   cap_w, cap_h, blur_renderer, out_tex, overlayShown, histVars>>

\* Mutant: the render loop never looks at the close flag (while True).
LoopTop_ignoresClose ==
    /\ pc = "loop_top"
    /\ pc' = "capture"
    /\ closeSeen' = (closeSeen \/ should_close)
    /\ UNCHANGED compVars
    /\ UNCHANGED <<settingsVars, exc, glfw_state, window, win_size, hwnd, excluded,
                   closeRequested, should_close, _capture, first, frame, input_format,
                   cap_w, cap_h, blur_renderer, display_prog, out_tex, overlayShown,
                   nframes, log, skipArg, negotiations, constructions, released>>

\* main, lines 301-302: the condition of the render loop.
LoopTop ==
    /\ pc = "loop_top"
    /\ IF ~should_close THEN pc' = "capture" ELSE pc' = "finally"
    /\ closeSeen' = (closeSeen \/ should_close)
    /\ UNCHANGED compVars
    /\ UNCHANGED <<settingsVars, exc, glfw_state, window, win_size, hwnd, excluded,
                   closeRequested, should_close, _capture, first, frame, input_format,
                   cap_w, cap_h, blur_renderer, display_prog, out_tex, overlayShown,
                   nframes, log, skipArg, negotiations, constructions, released>>

\* Mutant: the None branch of the render loop sleeps without polling events.
LoopCapture_noPoll ==
    /\ pc = "capture"
    /\ \E o \in MainCapture :
          /\ NoteCapture(o, "loop")
          /\ IF o.kind = "raise"
             THEN /\ pc' = "finally"
                  /\ exc' = o.exn
                  /\ UNCHANGED <<frame, should_close>>
             ELSE IF o.kind = "none"
             THEN /\ frame' = None
                  /\ pc' = "loop_top"
                  /\ UNCHANGED <<exc, should_close>>
             ELSE /\ frame' = o.frame
                  /\ pc' = "validate"
                  /\ UNCHANGED <<exc, should_close>>
    /\ UNCHANGED compVars
    /\ UNCHANGED <<settingsVars, glfw_state, window, win_size, hwnd, excluded,
                   closeRequested, first, input_format, cap_w, cap_h, blur_renderer,
                   display_prog, out_tex, overlayShown, negotiations, constructions,
                   released, closeSeen>>

\* main, lines 304-309: the capture call of an iteration and its None branch.
LoopCapture ==
    /\ pc = "capture"
    /\ \E o \in MainCapture :
          /\ NoteCapture(o, "loop")
          /\ IF o.kind = "raise"
             THEN /\ pc' = "finally"
                  /\ exc' = o.exn
                  /\ UNCHANGED <<frame, should_close>>
             ELSE IF o.kind = "none"
             THEN /\ frame' = None
                  /\ PollEvents
                  /\ pc' = "loop_top"
                  /\ exc' = exc
             ELSE /\ frame' = o.frame
                  /\ pc' = "validate"
                  /\ UNCHANGED <<exc, should_close>>
    /\ UNCHANGED compVars
    /\ UNCHANGED <<settingsVars, glfw_state, window, win_size, hwnd, excluded,
                   closeRequested, first, input_format, cap_w, cap_h, blur_renderer,
                   display_prog, out_tex, overlayShown, negotiations, constructions,
                   released, closeSeen>>

\* Mutant: the format check re-derives input_format and the resolution from
\* each frame instead of keeping the negotiated ones.
LoopValidate_renegotiates ==
    /\ pc = "validate"
    /\ IF frame.ndim # 3 \/ frame.ch \notin {3, 4}
       THEN /\ PollEvents
            /\ pc' = "loop_top"
            /\ UNCHANGED <<input_format, cap_w, cap_h>>
       ELSE /\ should_close' = should_close
            /\ pc' = "process"
            /\ input_format' = InputFormatFor(capture_format, frame.ch)
            /\ cap_w' = frame.w
            /\ cap_h' = frame.h
    /\ UNCHANGED compVars
    /\ UNCHANGED <<settingsVars, exc, glfw_state, window, win_size, hwnd, excluded,
                   closeRequested, _capture, first, frame, blur_renderer,
                   display_prog, out_tex, overlayShown, histVars>>

\* main, lines 311-322: the format check of the captured frame.
LoopValidate ==
    /\ pc = "validate"
    /\ IF ~LoopFormatOK(frame)
       THEN PollEvents /\ pc' = "loop_top"
       ELSE should_close' = should_close /\ pc' = "process"
    /\ UNCHANGED compVars
    /\ UNCHANGED <<settingsVars, exc, glfw_state, window, win_size, hwnd, excluded,
                   closeRequested, _capture, first, frame, input_format, cap_w, cap_h,
                   blur_renderer, display_prog, out_tex, overlayShown, histVars>>

\* main, lines 324-327: blur_renderer.process(frame), i.e. upload_frame and the
\* horizontal and vertical pass.  A ValueError of upload_frame is not caught
\* in the loop: it leaves the try block through finally.
LoopProcess ==
    /\ pc = "process"
    /\ IF UploadResult(blur_renderer, frame) = "ok"
       THEN /\ log' = [log EXCEPT ![frame.id].processed = @ + 1,
                                  ![frame.id].passes = @ + 2]
            /\ out_tex' = "tex_out"
            /\ pc' = "present"
            /\ exc' = exc
       ELSE /\ log' = [log EXCEPT ![frame.id].processed = @ + 1]
            /\ out_tex' = out_tex
            /\ pc' = "finally"
            /\ exc' = "ValueError"
    /\ UNCHANGED compVars
    /\ UNCHANGED <<settingsVars, glfw_state, window, win_size, hwnd, excluded,
                   closeRequested, should_close, _capture, first, frame, input_format,
                   cap_w, cap_h, blur_renderer, display_prog, overlayShown, nframes,
                   skipArg, negotiations, constructions, released, closeSeen>>

\* Mutant: the exclusion is attempted again in every presenting iteration.
LoopPresent_reattempts ==
    /\ pc = "present"
    /\ overlayShown' = TRUE
    /\ log' = [log EXCEPT ![frame.id].presented = @ + 1]
    /\ \E affinityOK \in BOOLEAN :
          excluded' = attempt_exclude_from_capture(hwnd, affinityOK)
    /\ PollEvents
    /\ pc' = "loop_top"
    /\ UNCHANGED compVars
    /\ UNCHANGED <<settingsVars, exc, glfw_state, window, win_size, hwnd,
                   closeRequested, _capture, first, frame, input_format, cap_w, cap_h,
                   blur_renderer, display_prog, out_tex, nframes, skipArg,
                   negotiations, constructions, released, closeSeen>>

\* main, lines 329-364: the display pass, swap_buffers, poll_events,
\* telemetry (which prints excluded) and pacing.
LoopPresent ==
    /\ pc = "present"
    /\ overlayShown' = TRUE
    /\ log' = [log EXCEPT ![frame.id].presented = @ + 1]
    /\ PollEvents
    /\ pc' = "loop_top"
    /\ UNCHANGED compVars
    /\ UNCHANGED <<settingsVars, exc, glfw_state, window, win_size, hwnd, excluded,
                   closeRequested, _capture, first, frame, input_format, cap_w, cap_h,
                   blur_renderer, display_prog, out_tex, nframes, skipArg,
                   negotiations, constructions, released, closeSeen>>

\* Mutant: the releases sit after the loop instead of in a finally block, so
\* an exception raised in an iteration skips them.
Finally_skippedOnError ==
    /\ pc = "finally"
    /\ IF exc = "none"
       THEN /\ blur_renderer' = [blur_renderer EXCEPT !.state = "cleaned"]
            /\ display_prog' = "deleted"
            /\ window' = "destroyed"
            /\ glfw_state' = "terminated"
            /\ released' = [r \in Resources |-> released[r] + 1]
            /\ pc' = "done"
       ELSE /\ pc' = "raised"
            /\ UNCHANGED <<blur_renderer, display_prog, window, glfw_state, released>>
    /\ UNCHANGED compVars
    /\ UNCHANGED <<settingsVars, exc, win_size, hwnd, excluded, closeRequested,
                   should_close, _capture, first, frame, input_format, cap_w, cap_h,
                   out_tex, overlayShown, nframes, log, skipArg, negotiations,
                   constructions, closeSeen>>

\* main, lines 366-372: the finally block; a pending exception is re-raised.
Finally ==
    /\ pc = "finally"
    /\ blur_renderer' = [blur_renderer EXCEPT !.state = "cleaned"]
    /\ display_prog' = "deleted"
    /\ window' = "destroyed"
    /\ glfw_state' = "terminated"
    /\ released' = [r \in Resources |-> released[r] + 1]
    /\ pc' = IF exc = "none" THEN "done" ELSE "raised"
    /\ UNCHANGED compVars
    /\ UNCHANGED <<settingsVars, exc, win_size, hwnd, excluded, closeRequested,
                   should_close, _capture, first, frame, input_format, cap_w, cap_h,
                   out_tex, overlayShown, nframes, log, skipArg, negotiations,
                   constructions, closeSeen>>

\* The user (or the system) asks the overlay window to close; GLFW turns the
\* request into the close flag on its next poll_events.
RequestClose ==
    /\ window = "open"
    /\ ~closeRequested
    /\ closeRequested' = TRUE
    /\ UNCHANGED compVars
    /\ UNCHANGED <<settingsVars, pc, exc, glfw_state, window, win_size, hwnd, excluded,
                   should_close, _capture, first, frame, input_format, cap_w, cap_h,
                   blur_renderer, display_prog, out_tex, overlayShown, histVars>>

Next ==
    \/ GlfwInit
    \/ CreateWindow
    \/ SetupOverlay
    \/ AwaitTop
    \/ AwaitCapture
    \/ FirstCheck
    \/ BuildRenderer
    \/ BuildDisplay
    \/ LoopTop
    \/ LoopCapture
    \/ LoopValidate
    \/ LoopProcess
    \/ LoopPresent
    \/ Finally
    \/ RequestClose

Spec == Init /\ [][Next]_vars

\* One step of main itself (every action but the user's close request).
MainStep ==
    \/ GlfwInit
    \/ CreateWindow
    \/ SetupOverlay
    \/ AwaitTop
    \/ AwaitCapture
    \/ FirstCheck
    \/ BuildRenderer
    \/ BuildDisplay
    \/ LoopTop
    \/ LoopCapture
    \/ LoopValidate
    \/ LoopProcess
    \/ LoopPresent
    \/ Finally

\* main keeps running: none of its calls blocks (grab, poll_events and the
\* GL calls return, the sleeps are bounded), so a step that is possible is
\* eventually taken.
LiveSpec == Init /\ [][Next]_vars /\ WF_vars(MainStep)

\* ------------------------------------------------------------------ claims

\* Positions of main inside the render loop.
RunningPcs == {"loop_top", "capture", "validate", "process", "present"}

\* Positions of main before the negotiation.
StartupPcs == {"start", "create_window", "exclude", "await_top", "await_capture",
               "first_check"}

\* The channel count fixed by the negotiated input_format.
NegotiatedChannels == IF input_format \in {GL_RGBA, GL_BGRA} THEN 4 ELSE 3

\* C1: no captured frame contains what the overlay presented, whatever the
\* exclusion attempt returned.
C1_NoFeedback == ~first.hasOverlay /\ ~frame.hasOverlay

\* C2: when the exclusion attempt failed, every capture request carries the
\* non-null overlay handle to skip; when it succeeded, none carries a handle.
C2_GuardHandleSupplied ==
    /\ excluded => skipArg \subseteq {0}
    /\ ~excluded => (skipArg \subseteq {hwnd} /\ 0 \notin skipArg)

\* A loop frame whose iteration is over.
Handled(i) ==
    /\ log[i].captured = "loop"
    /\ \/ i < nframes
       \/ pc \in {"loop_top", "capture", "finally", "done", "raised"}

C4_NegotiatedOnce ==
    /\ negotiations <= 1
    /\ constructions <= negotiations
    /\ (pc \in StartupPcs =>
          negotiations = 0 /\ input_format = "unset" /\ cap_w = 0 /\ cap_h = 0)
    /\ (pc \in RunningPcs \cup {"finally"} =>
          /\ negotiations = 1
          /\ constructions = 1
          /\ input_format = InputFormatFor(capture_format, first.ch)
          /\ cap_w = first.w
          /\ cap_h = first.h
          /\ blur_renderer.w = cap_w
          /\ blur_renderer.h = cap_h
          /\ blur_renderer.input_format = input_format)

C4_Witness ==
    /\ pc = "present"
    /\ nframes >= 3
    /\ negotiations = 1
    /\ frame.id = 3

\* C5: a loop frame whose channel count differs from the negotiated one is
\* discarded: it is not passed to process, not presented, and no exception
\* ends the loop for it.
C5_MismatchDiscarded ==
    (/\ pc \in RunningPcs \cup {"finally", "done", "raised"}
     /\ ~IsNone(frame)
     /\ frame.ch # NegotiatedChannels)
    => /\ pc # "process"
       /\ log[frame.id].processed = 0
       /\ log[frame.id].presented = 0
       /\ exc # "ValueError"

\* C6: a loop frame with the negotiated channel count, width and height has
\* been processed and presented when its iteration is over.
C6_MatchingFrameProcessed ==
    (/\ pc = "loop_top"
     /\ ~IsNone(frame)
     /\ frame.ndim = 3
     /\ frame.ch = NegotiatedChannels
     /\ frame.w = cap_w
     /\ frame.h = cap_h)
    => /\ log[frame.id].processed = 1
       /\ log[frame.id].presented = 1

\* C7: a first frame that is not 3-dimensional with 3 or 4 channels sends
\* main straight to shutdown: no renderer, no loop, no frame processed or
\* presented, window destroyed and GLFW terminated.
C7_InvalidFirstFrameShutsDown ==
    (~IsNone(first) /\ ~(first.ndim = 3 /\ first.ch \in {3, 4}))
    => /\ pc \in {"await_top", "first_check", "done"}
       /\ blur_renderer.state = "none"
       /\ display_prog = "none"
       /\ constructions = 0
       /\ negotiations = 0
       /\ ~overlayShown
       /\ \A i \in FrameIds : log[i].processed = 0 /\ log[i].presented = 0
       /\ exc = "none"
       /\ (pc = "done" =>
             /\ window = "destroyed"
             /\ glfw_state = "terminated"
             /\ released["window"] = 1
             /\ released["glfw"] = 1)

C7_Witness ==
    /\ pc = "done"
    /\ ~IsNone(first)
    /\ first.ndim = 3
    /\ first.ch = 1

\* C8 as claimed: in the render loop the window has the capture resolution.
C8_WindowHasCaptureSize ==
    pc \in RunningPcs => win_size = <<cap_w, cap_h>>

\* C8 as amended: from the negotiation on, the window has the configured
\* overlay_size, whatever the capture resolution is.
C8_WindowHasOverlaySize ==
    pc \in {"build_renderer", "build_display"} \cup RunningPcs
    => win_size = overlay_size

C8_Witness ==
    /\ pc = "loop_top"
    /\ win_size = overlay_size
    /\ win_size # <<cap_w, cap_h>>

\* C9: a loop frame whose width or height differs from the renderer's is
\* skipped: no pass is drawn for it and its upload error does not end the loop.
C9_SizeMismatchSkipped ==
    (/\ pc \in RunningPcs \cup {"finally", "done", "raised"}
     /\ ~IsNone(frame)
     /\ (frame.w # cap_w \/ frame.h # cap_h))
    => /\ log[frame.id].passes = 0
       /\ log[frame.id].presented = 0
       /\ exc # "ValueError"

\* Steps of an iteration that do not depend on the close request.
IterationRunsThrough ==
    /\ (pc = "capture" /\ pc' = "finally") => exc' # "none"
    /\ (pc = "validate" /\ pc' # pc) =>
          pc' = (IF frame.ndim = 3 /\ frame.ch = 3 THEN "process" ELSE "loop_top")
    /\ (pc = "process" /\ pc' # pc) =>
          /\ log'[frame.id].processed = log[frame.id].processed + 1
          /\ (pc' = "present" \/ (pc' = "finally" /\ exc' = "ValueError"))
    /\ (pc = "present" /\ pc' # pc) =>
          /\ pc' = "loop_top"
          /\ log'[frame.id].presented = log[frame.id].presented + 1

\* C10: once a loop condition has seen the close flag, main is never again
\* at a capture, process or present; and an iteration under way takes each
\* of its steps whether or not a close was requested meanwhile.
C10_CooperativeCancellation ==
    /\ [](closeSeen => pc \notin {"await_capture", "capture", "validate",
                                  "process", "present"})
    /\ [](pc = "capture" => ENABLED LoopCapture)
    /\ [](pc = "validate" => ENABLED LoopValidate)
    /\ [](pc = "process" => ENABLED LoopProcess)
    /\ [](pc = "present" => ENABLED LoopPresent)
    /\ [][IterationRunsThrough]_vars

C10_Witness ==
    /\ pc = "present"
    /\ closeRequested
    /\ ~should_close
    /\ ~closeSeen

\* Positions at which main has ended.
EndPcs == {"done", "raised"}

\* C11: on every way out of the render loop the renderer, the display
\* program, the display VAO, the window and GLFW are each released exactly
\* once, and none of them is released while main is still in the loop.
C11_ReleasedOnceOnLoopExit ==
    /\ \A r \in Resources : released[r] <= 1
    /\ (pc \in RunningPcs \cup {"finally"} =>
          /\ \A r \in Resources : released[r] = 0
          /\ blur_renderer.state = "built"
          /\ display_prog = "built"
          /\ window = "open"
          /\ glfw_state = "on")
    /\ ((pc \in EndPcs /\ display_prog # "none") =>
          /\ \A r \in Resources : released[r] = 1
          /\ blur_renderer.state = "cleaned"
          /\ display_prog = "deleted"
          /\ window = "destroyed"
          /\ glfw_state = "terminated")

C11_Witness ==
    /\ pc = "raised"
    /\ exc = "ValueError"
    /\ \A r \in Resources : released[r] = 1

\* C12: when main ends with an exception after the window was created, the
\* window is destroyed, GLFW is terminated and no GL object of a partly built
\* renderer is left behind.
C12_StartupFailureReleases ==
    (pc = "raised" /\ window # "none")
    => /\ window = "destroyed"
       /\ glfw_state = "terminated"
       /\ blur_renderer.state # "partial"

\* C14: once a close has been requested, main ends.
C14_CloseLeadsToShutdown == closeRequested ~> (pc \in EndPcs)

C14_Witness ==
    /\ pc = "done"
    /\ closeSeen
    /\ nframes = 0
    /\ released["window"] = 1

\* C16: a failed exclusion attempt raises nothing and leaves the window
\* open: main goes on to the first-frame wait, and from there every step of
\* main is possible whatever the exclusion status is.
C16_ExclusionFailureNonFatal ==
    /\ [][(pc = "exclude" /\ pc' # pc) =>
            (pc' = "await_top" /\ exc' = "none" /\ window' = "open")]_vars
    /\ []((~excluded /\ pc \notin EndPcs) => ENABLED MainStep)

C16_Witness ==
    /\ ~excluded
    /\ pc = "loop_top"
    /\ hwnd # 0
    /\ \E i \in FrameIds : log[i].processed = 1 /\ log[i].presented = 1

\* ------------------------------------------------ frame pacing (PaceSpec)

\* The target_fps values of the settings: whole and half numbers, negative
\* ones and zero included, as num/den.
FpsValues == {[num |-> k, den |-> d] : k \in (-3)..(2 * MaxFps), d \in {2}}
             \cup {[num |-> k, den |-> 1] : k \in (-1)..MaxFps}

\* Python's int() of a number: truncation towards zero.
IntOf(q) ==
    IF q.num >= 0 THEN q.num \div q.den ELSE -((-q.num) \div q.den)

\* max(1, int(target_fps)) of main.
FramesPerSecond(fps) == IF IntOf(fps) > 1 THEN IntOf(fps) ELSE 1

\* Mutant: the pacing sleep is left out.
PacingSleep_none(dt, n) == 0

\* The ticks the pacing sleeps for: nothing when dt >= target_dt = 1/n s,
\* else target_dt - dt, which time.sleep turns into the first whole tick
\* not before it.
PacingSleep(dt, n) ==
    IF dt * n < TicksPerSecond
    THEN ((TicksPerSecond - dt * n) + (n - 1)) \div n
    ELSE 0

PaceInit ==
    /\ MainIdle
    /\ RendIdle
    /\ LoadIdle
    /\ ConvIdle
    /\ DxIdle
    /\ PassIdle
    /\ target_fps \in FpsValues
    /\ pace_pc = "top"
    /\ elapsed = 0
    /\ presented = FALSE
    /\ period = 0
    /\ periodPresented = FALSE

\* main, lines 301-302: an iteration starts and reads t0; the iteration
\* before it has lasted for what the clock shows since its own t0.
PaceIterStart ==
    /\ pace_pc = "top"
    /\ period' = elapsed
    /\ periodPresented' = presented
    /\ elapsed' = 0
    /\ presented' = FALSE
    /\ pace_pc' = "work"
    /\ UNCHANGED <<outsidePace, target_fps>>

\* main, lines 304-316: the capture returned None or the frame was
\* discarded: a short sleep and the next iteration, without pacing.
PaceSkip ==
    /\ pace_pc = "work"
    /\ \E d \in 1..MaxWork : elapsed' = elapsed + d
    /\ pace_pc' = "top"
    /\ UNCHANGED <<outsidePace, target_fps, presented, period, periodPresented>>

\* main, lines 304-357: capture, process, display pass, swap_buffers,
\* poll_events and telemetry take d ticks.
PaceWork ==
    /\ pace_pc = "work"
    /\ \E d \in 0..MaxWork : elapsed' = elapsed + d
    /\ presented' = TRUE
    /\ pace_pc' = "pace"
    /\ UNCHANGED <<outsidePace, target_fps, period, periodPresented>>

\* main, lines 359-364: dt, target_dt and the pacing sleep.
PacePace ==
    /\ pace_pc = "pace"
    /\ LET n  == FramesPerSecond(target_fps)
           sl == PacingSleep(elapsed, n)
       IN  \E over \in 0..MaxOversleep :
              elapsed' = elapsed + sl + (IF sl > 0 THEN over ELSE 0)
    /\ pace_pc' = "top"
    /\ UNCHANGED <<outsidePace, target_fps, presented, period, periodPresented>>

PaceNext ==
    \/ PaceIterStart
    \/ PaceSkip
    \/ PaceWork
    \/ PacePace

PaceSpec == PaceInit /\ [][PaceNext]_vars

\* C15: an iteration that presented a frame lasted at least 1/n s, where n
\* is int(target_fps) if that is at least 1 and 1 otherwise: period / T >= 1 / n.
C15_PresentingIterationLastsAPeriod ==
    periodPresented =>
        LET t == IF target_fps.num >= 0
                 THEN target_fps.num \div target_fps.den
                 ELSE -((-target_fps.num) \div target_fps.den)
            n == IF t >= 1 THEN t ELSE 1
        IN  period * n >= TicksPerSecond

C15_Witness ==
    /\ periodPresented
    /\ target_fps = [num |-> 5, den |-> 2]
    /\ period * 2 = TicksPerSecond

\* ------------------------------------- render_blur.py (RendSpec): numbers

\* A Python number: an int (den = 1, float FALSE) or a float num/den.
PyInt(k) == [num |-> k, den |-> 1, float |-> FALSE]

PyFloat(n, d) == [num |-> n, den |-> d, float |-> TRUE]

\* Python's float() of a number: a float of the same value.
FloatOf(q) == [num |-> q.num, den |-> q.den, float |-> TRUE]

\* The value of a Python number q is the integer k.
IsInteger(q, k) == q.num = k * q.den

\* Two Python numbers of the same value.
SameValue(a, b) == a.num * b.den = b.num * a.den

\* The defaults of __init__ and of set_params.
DefaultParams ==
    [radius |-> <<PyInt(0), PyInt(2), PyInt(6)>>,
     sigma  |-> <<PyFloat(1, 1000), PyFloat(1, 1), PyFloat(3, 1)>>]

\* The (radius_rgb, sigma_rgb) arguments of a set_params call: the defaults,
\* whole sigmas, a fractional radius and a negative fractional radius.
ParamChoices ==
    {DefaultParams,
     [radius |-> <<PyInt(1), PyInt(1), PyInt(1)>>,
      sigma  |-> <<PyInt(1), PyInt(2), PyInt(1)>>],
     [radius |-> <<PyInt(0), PyFloat(3, 2), PyInt(2)>>,
      sigma  |-> <<PyFloat(1, 2), PyFloat(1, 1), PyFloat(2, 1)>>],
     [radius |-> <<PyFloat(-3, 2), PyInt(0), PyInt(1)>>,
      sigma  |-> <<PyFloat(1, 1000), PyFloat(1, 1), PyFloat(3, 1)>>]}

\* What glUniform3i / glUniform3f store for the arguments p of set_params.
UniformsFor(p) ==
    [radius |-> [i \in 1..3 |-> IntOf(p.radius[i])],
     sigma  |-> [i \in 1..3 |-> FloatOf(p.sigma[i])]]

\* --------------------------------- render_blur.py (RendSpec): GL objects

\* _create_rgb8_texture(w, h) in context g, under the next free name.
create_rgb8_texture(g, w, h) ==
    [g EXCEPT !.textures = @ \cup {[id |-> g.nextId, w |-> w, h |-> h]},
              !.nextId = @ + 1]

\* _create_fbo_with_color_tex(tex).
create_fbo_with_color_tex(g, tex) ==
    [g EXCEPT !.fbos = @ \cup {[id |-> g.nextId, tex |-> tex]},
              !.nextId = @ + 1]

\* _compile_blur_program: a linked program whose uniforms are not set yet.
compile_blur_program(g) ==
    [g EXCEPT !.programs = @ \cup {g.nextId},
              !.uniforms = (g.nextId :> NoParams) @@ @,
              !.nextId = @ + 1]

\* glGenVertexArrays(1).
GenVertexArray(g) ==
    [g EXCEPT !.vaos = @ \cup {g.nextId}, !.nextId = @ + 1]

\* The names and sizes of every live GL object.
Objects(g) == <<g.textures, g.fbos, g.programs, g.vaos>>

\* Mutant: set_params writes the uniforms of the horizontal program only.
set_params_horizontalOnly(g, e, p) ==
    [g EXCEPT !.uniforms[e.prog_h] = UniformsFor(p)]

\* GaussianBlurRenderer.set_params: the same uniforms into both programs.
set_params(g, e, p) ==
    [g EXCEPT !.uniforms[e.prog_h] = UniformsFor(p),
              !.uniforms[e.prog_v] = UniformsFor(p)]

\* GaussianBlurRenderer.__init__ after the shader file was found: the
\* objects in the order the constructor creates them, then the defaults.
GaussianBlurRenderer(g, w, h, fmt) ==
    LET g1 == GenVertexArray(g)
        g2 == compile_blur_program(g1)
        g3 == compile_blur_program(g2)
        g4 == create_rgb8_texture(g3, w, h)
        g5 == create_rgb8_texture(g4, w, h)
        g6 == create_rgb8_texture(g5, w, h)
        g7 == create_fbo_with_color_tex(g6, g4.nextId)
        g8 == create_fbo_with_color_tex(g7, g5.nextId)
        e  == [state |-> "live", w |-> w, h |-> h, input_format |-> fmt,
               vao |-> g.nextId, prog_h |-> g1.nextId, prog_v |-> g2.nextId,
               tex_in |-> g3.nextId, tex_temp |-> g4.nextId, tex_out |-> g5.nextId,
               fbo_temp |-> g6.nextId, fbo_out |-> g7.nextId,
               _upload_count |-> 0, exc |-> "none"]
    IN  [gl |-> set_params(g8, e, DefaultParams), eng |-> e]

\* GaussianBlurRenderer.upload_frame: the engine after the call; exc says
\* whether it raised.
upload_frame(e, f) ==
    IF UploadResult(e, f) = "ok"
    THEN [e EXCEPT !._upload_count = @ + 1, !.exc = "none"]
    ELSE [e EXCEPT !.exc = "ValueError"]

\* Mutant: process allocates a fresh output texture for every frame.
process_reallocates(g, e, f) ==
    LET e1 == upload_frame(e, f)
        g1 == create_rgb8_texture(g, e.w, e.h)
    IN  IF e1.exc # "none"
        THEN [gl |-> g, eng |-> e1, ret |-> 0]
        ELSE [gl |-> g1, eng |-> [e1 EXCEPT !.tex_out = g.nextId], ret |-> g.nextId]

\* GaussianBlurRenderer.process: upload, horizontal pass into fbo_temp,
\* vertical pass into fbo_out, bindings and viewport put back; returns
\* tex_out.  ret = 0 stands for "raised, nothing returned".
process(g, e, f) ==
    LET e1 == upload_frame(e, f)
    IN  IF e1.exc # "none"
        THEN [gl |-> g, eng |-> e1, ret |-> 0]
        ELSE [gl |-> g, eng |-> e1, ret |-> e1.tex_out]

\* GaussianBlurRenderer.cleanup: five glDelete* calls, issued whatever the
\* state of the objects.  When the names are live they are deleted.  When
\* they are gone already, glDeleteProgram answers GL_INVALID_VALUE: with
\* PyOpenGL's error checking on (checked) the first call raises GLError,
\* with it off all five calls are issued and ignored.
cleanup(g, e, checked) ==
    IF e.prog_h \in g.programs
    THEN [gl |-> [g EXCEPT
                    !.programs = @ \ {e.prog_h, e.prog_v},
                    !.uniforms = [q \in (DOMAIN @) \ {e.prog_h, e.prog_v} |-> @[q]],
                    !.textures = {t \in @ : t.id \notin {e.tex_in, e.tex_temp, e.tex_out}},
                    !.fbos = {b \in @ : b.id \notin {e.fbo_temp, e.fbo_out}},
                    !.vaos = @ \ {e.vao},
                    !.deletes = @ + 5],
          eng |-> [e EXCEPT !.state = "cleaned", !.exc = "none"]]
    ELSE IF checked
    THEN [gl |-> [g EXCEPT !.deletes = @ + 1, !.error = TRUE],
          eng |-> [e EXCEPT !.exc = "GLError"]]
    ELSE [gl |-> [g EXCEPT !.deletes = @ + 5, !.error = TRUE],
          eng |-> [e EXCEPT !.exc = "none"]]

\* ----------------------------------- render_blur.py (RendSpec): the client

\* The frames a client hands to upload_frame and process.
RendFrames == {None} \cup {MkFrame(1, r, FALSE, FALSE) : r \in RawShapes}

InputFormats == {GL_RGB, GL_BGR, GL_RGBA, GL_BGRA}

RendInit ==
    /\ MainIdle
    /\ PaceIdle
    /\ LoadIdle
    /\ ConvIdle
    /\ DxIdle
    /\ PassIdle
    /\ gl = NoGL
    /\ eng = NoEngine
    /\ rend_pc = "construct"
    /\ ret = 0
    /\ \E p \in ParamChoices : rhist = [NoCalls EXCEPT !.main = p]

\* main, line 282: GaussianBlurRenderer(cap_w, cap_h, path, input_format).
RendConstruct ==
    /\ rend_pc = "construct"
    /\ \E s \in Sizes, fmt \in InputFormats, found \in BOOLEAN :
          IF found
          THEN LET r == GaussianBlurRenderer(gl, s[1], s[2], fmt)
               IN  /\ gl' = r.gl
                   /\ eng' = r.eng
                   /\ rhist' = [rhist EXCEPT !.last = DefaultParams, !.setCalls = 1]
                   /\ rend_pc' = "set_params"
          ELSE /\ eng' = [eng EXCEPT !.exc = "FileNotFoundError"]
               /\ rend_pc' = "done"
               /\ UNCHANGED <<gl, rhist>>
    /\ UNCHANGED <<outsideRend, ret>>

\* main, line 283: set_params(radius_rgb=radius_rgb, sigma_rgb=sigma_rgb)
\* with the values of the settings.
RendMainSetParams ==
    /\ rend_pc = "set_params"
    /\ gl' = set_params(gl, eng, rhist.main)
    /\ rhist' = [rhist EXCEPT !.last = rhist.main, !.setCalls = @ + 1]
    /\ rend_pc' = "loop"
    /\ UNCHANGED <<outsideRend, eng, ret>>

\* A later set_params call of the client.
RendSetParams ==
    /\ rend_pc = "loop"
    /\ rhist.setCalls < 2 + MaxCalls
    /\ \E p \in ParamChoices :
          /\ gl' = set_params(gl, eng, p)
          /\ rhist' = [rhist EXCEPT !.last = p, !.setCalls = @ + 1]
    /\ UNCHANGED <<outsideRend, eng, rend_pc, ret>>

\* upload_frame(frame) called on its own.
RendUpload ==
    /\ rend_pc = "loop"
    /\ eng._upload_count < MaxCalls
    /\ \E f \in RendFrames : eng' = upload_frame(eng, f)
    /\ UNCHANGED <<outsideRend, gl, rend_pc, ret, rhist>>

\* process(frame), as in main, line 326.
RendProcess ==
    /\ rend_pc = "loop"
    /\ rhist.processed < MaxCalls
    /\ \E f \in RendFrames :
          LET r == process(gl, eng, f)
          IN  /\ gl' = r.gl
              /\ eng' = r.eng
              /\ IF r.eng.exc = "none"
                 THEN /\ ret' = r.ret
                      /\ rhist' = [rhist EXCEPT
                            !.processed = @ + 1,
                            !.first = IF rhist.processed = 0
                                      THEN [h |-> gl.uniforms[eng.prog_h],
                                            v |-> gl.uniforms[eng.prog_v]]
                                      ELSE @,
                            !.firstAt = IF rhist.processed = 0
                                        THEN rhist.setCalls ELSE @]
                 ELSE UNCHANGED <<ret, rhist>>
    /\ UNCHANGED <<outsideRend, rend_pc>>

\* readback_output(): reads fbo_out back and unbinds it.  Only the first
\* call is counted; a later one changes nothing.
RendReadback ==
    /\ rend_pc = "loop"
    /\ rhist' = [rhist EXCEPT !.readbacks = 1]
    /\ UNCHANGED <<outsideRend, gl, eng, rend_pc, ret>>

\* cleanup(), as in main, line 367, and any call after that one.
RendCleanup ==
    /\ rend_pc \in {"loop", "cleaned"}
    /\ rhist.cleanups < MaxCalls
    /\ \E checked \in BOOLEAN :
          LET r == cleanup(gl, eng, checked)
          IN  /\ gl' = r.gl
              /\ eng' = r.eng
    /\ rhist' = [rhist EXCEPT !.cleanups = @ + 1]
    /\ rend_pc' = "cleaned"
    /\ UNCHANGED <<outsideRend, ret>>

RendNext ==
    \/ RendConstruct
    \/ RendMainSetParams
    \/ RendSetParams
    \/ RendUpload
    \/ RendProcess
    \/ RendReadback
    \/ RendCleanup

RendSpec == RendInit /\ [][RendNext]_vars

\* The names of the five surfaces with the sizes GL holds for the textures
\* and for the textures the framebuffers render into.
Surfaces(g, e) ==
    LET size(t) == {<<x.w, x.h>> : x \in {y \in g.textures : y.id = t}}
        target(b) == {x.tex : x \in {y \in g.fbos : y.id = b}}
    IN  <<e.tex_in, size(e.tex_in), e.tex_temp, size(e.tex_temp),
          e.tex_out, size(e.tex_out),
          e.fbo_temp, target(e.fbo_temp), e.fbo_out, target(e.fbo_out)>>

RendTypeOK ==
    /\ rend_pc \in {"idle", "construct", "set_params", "loop", "cleaned", "done"}
    /\ eng.state \in {"none", "live", "cleaned"}
    /\ gl.nextId \in 1..20
    /\ ret \in 0..20

\* C13: once cleanup has been called, a further cleanup call issues no
\* delete and changes neither the GL objects nor the engine.
C13_SecondCleanupIsNoOp ==
    [][(rhist.cleanups >= 1 /\ rhist'.cleanups > rhist.cleanups)
          => (gl' = gl /\ eng' = eng)]_vars

\* The uniforms u hold the radius and sigma triples p: every radius is the
\* integer stored for it, every sigma has the value stored for it.
HoldsExactly(u, p) ==
    /\ DOMAIN u.radius = 1..3
    /\ DOMAIN u.sigma = 1..3
    /\ \A i \in 1..3 : /\ IsInteger(p.radius[i], u.radius[i])
                       /\ SameValue(u.sigma[i], p.sigma[i])

\* The uniforms u hold int() of the radii and float() of the sigmas of p:
\* every stored radius k is the radius cut off towards zero.
HoldsConverted(u, p) ==
    /\ DOMAIN u.radius = 1..3
    /\ DOMAIN u.sigma = 1..3
    /\ \A i \in 1..3 :
          LET q == p.radius[i]
              k == u.radius[i]
          IN  /\ IF q.num >= 0
                 THEN k * q.den <= q.num /\ q.num < (k + 1) * q.den
                 ELSE (k - 1) * q.den < q.num /\ q.num <= k * q.den
              /\ SameValue(u.sigma[i], p.sigma[i])
              /\ u.sigma[i].float

C18_SurfacesAllocatedOnce ==
    /\ [][(eng.state = "live" /\ eng'.state = "live")
            => Surfaces(gl', eng') = Surfaces(gl, eng)]_vars
    /\ [](eng.state = "live" =>
            \A t \in {eng.tex_in, eng.tex_temp, eng.tex_out} :
               [id |-> t, w |-> eng.w, h |-> eng.h] \in gl.textures)
    /\ [](rhist.processed > 0 => ret = eng.tex_out)

C18_Witness ==
    /\ eng.state = "live"
    /\ rhist.processed = 2
    /\ eng._upload_count = 2
    /\ rhist.setCalls = 4
    /\ rhist.readbacks = 1
    /\ ret = eng.tex_out
    /\ [id |-> ret, w |-> MaxDim, h |-> 1] \in gl.textures

\* ------------------------------------ utility/load_settings.py (LoadSpec)

\* Typed Python values.
StrV(t) == [type |-> "str", val |-> t]

IntV(k) == [type |-> "int", val |-> PyInt(k)]

FloatV(n, d) == [type |-> "float", val |-> PyFloat(n, d)]

BoolV(b) == [type |-> "bool", val |-> b]

TupleV(xs) == [type |-> "tuple", val |-> xs]

\* The text right of the "=" of a line, by its lexical form: a quoted
\* text, digits with an optional minus sign, another float literal, true
\* or false, a comma-separated list of parts, any other text.  A part is
\* digits ("int"), a literal with a dot that float() accepts ("float") or
\* something else ("text").
RawInt(k) == [form |-> "int", n |-> k]

RawFloat(n, d) == [form |-> "float", num |-> n, den |-> d]

RawText(t) == [form |-> "text", text |-> t]

RawList(ps) == [form |-> "list", parts |-> ps]

RawValues ==
    {[form |-> "quoted", text |-> "bgr"],
     RawText("rgb"), RawText("shader/other.glsl"),
     RawInt(30), RawInt(0), RawInt(-5),
     RawFloat(5, 2),
     [form |-> "bool", b |-> TRUE],
     RawList(<<RawInt(2), RawInt(1)>>),
     RawList(<<RawFloat(3, 2), RawInt(1)>>),
     RawList(<<RawInt(1), RawInt(2), RawInt(3)>>),
     RawList(<<RawInt(0), RawFloat(3, 2), RawInt(2)>>),
     RawList(<<RawInt(-1), RawInt(0), RawFloat(-1, 2)>>),
     RawList(<<RawText("a"), RawInt(2), RawText("c")>>),
     RawList(<<RawInt(1), RawInt(2), RawInt(3), RawInt(4)>>)}

\* The text of a part, as line.split(',') leaves it.
PartText(p) ==
    CASE p.form = "text"  -> p.text
      [] p.form = "int"   -> <<"digits", p.n>>
      [] p.form = "float" -> <<"literal", p.num, p.den>>

\* load_settings, lines 35-93: the value stored for a raw text.
ParseValue(raw) ==
    CASE raw.form = "quoted" -> StrV(raw.text)
      [] raw.form = "int"    -> IntV(raw.n)
      [] raw.form = "float"  -> FloatV(raw.num, raw.den)
      [] raw.form = "bool"   -> BoolV(raw.b)
      [] raw.form = "list"   ->
            IF \A i \in DOMAIN raw.parts : raw.parts[i].form \in {"int", "float"}
            THEN TupleV([i \in DOMAIN raw.parts |->
                           IF raw.parts[i].form = "int"
                           THEN IntV(raw.parts[i].n)
                           ELSE FloatV(raw.parts[i].num, raw.parts[i].den)])
            ELSE TupleV([i \in DOMAIN raw.parts |-> StrV(PartText(raw.parts[i]))])
      [] raw.form = "text"   -> StrV(raw.text)

\* The keys unpack_settings knows, in the order it returns their values.
SettingKeys ==
    <<"target_fps", "force_rgb", "capture_format", "debug_gl_finish",
      "gl_finish_interval", "overlay_size", "overlay_pos", "radius_rgb",
      "sigma_rgb", "shader_path">>

TupleKeys == {"overlay_size", "overlay_pos", "radius_rgb", "sigma_rgb"}

\* The keys a line of the file can have.
FileKeys == {SettingKeys[i] : i \in DOMAIN SettingKeys} \cup {"unknown_key"}

\* The defaults of unpack_settings.
Defaults ==
    [target_fps |-> IntV(60), force_rgb |-> BoolV(FALSE),
     capture_format |-> StrV("rgb"), debug_gl_finish |-> BoolV(TRUE),
     gl_finish_interval |-> IntV(60),
     overlay_size |-> TupleV(<<IntV(2560), IntV(1440)>>),
     overlay_pos |-> TupleV(<<IntV(0), IntV(0)>>),
     radius_rgb |-> TupleV(<<IntV(0), IntV(2), IntV(6)>>),
     sigma_rgb |-> TupleV(<<FloatV(1, 1000), FloatV(1, 1), FloatV(3, 1)>>),
     shader_path |-> StrV("shader/blur.glsl")]

\* Mutant: unpack_settings takes any value for a tuple key.
Accepted_anything(key, value) == TRUE

\* unpack_settings, lines 133-141: whether value replaces the default of key.
Accepted(key, value) ==
    IF key \in TupleKeys
    THEN value.type = "tuple" /\ Len(value.val) = Len(Defaults[key].val)
    ELSE TRUE

\* unpack_settings(settings_dict): the ten values in the documented order.
unpack_settings(d) ==
    [i \in DOMAIN SettingKeys |->
        LET key == SettingKeys[i]
        IN  IF key \in DOMAIN d /\ Accepted(key, d[key]) THEN d[key] ELSE Defaults[key]]

LoadInit ==
    /\ MainIdle
    /\ PaceIdle
    /\ RendIdle
    /\ ConvIdle
    /\ DxIdle
    /\ PassIdle
    /\ settings = <<>>
    /\ nlines = 0
    /\ set_pc = "reading"
    /\ unpacked = <<>>

\* load_settings, lines 15-93: one key = value line is read and stored; a
\* later line with the same key replaces the earlier value.
LoadLine ==
    /\ set_pc = "reading"
    /\ nlines < MaxLines
    /\ \E key \in FileKeys, raw \in RawValues :
          settings' = [k \in (DOMAIN settings) \cup {key} |->
                          IF k = key THEN ParseValue(raw) ELSE settings[k]]
    /\ nlines' = nlines + 1
    /\ UNCHANGED <<outsideLoad, set_pc, unpacked>>

\* load_settings, lines 95-100: the file is missing or reading it failed;
\* the function returns {}.
LoadFails ==
    /\ set_pc = "reading"
    /\ settings' = <<>>
    /\ set_pc' = "loaded"
    /\ UNCHANGED <<outsideLoad, nlines, unpacked>>

\* load_settings, line 102: the end of the file; the dictionary is returned.
LoadReturn ==
    /\ set_pc = "reading"
    /\ set_pc' = "loaded"
    /\ UNCHANGED <<outsideLoad, settings, nlines, unpacked>>

\* unpack_settings(settings).
LoadUnpack ==
    /\ set_pc = "loaded"
    /\ unpacked' = unpack_settings(settings)
    /\ set_pc' = "unpacked"
    /\ UNCHANGED <<outsideLoad, settings, nlines>>

LoadNext ==
    \/ LoadLine
    \/ LoadFails
    \/ LoadReturn
    \/ LoadUnpack

LoadSpec == LoadInit /\ [][LoadNext]_vars

\* The value unpack_settings returned for key.
Unpacked(key) ==
    unpacked[CHOOSE i \in DOMAIN SettingKeys : SettingKeys[i] = key]

IsNumber(v) == v.type \in {"int", "float"}

\* v is a tuple of n values.
IsTuple(v, n) == v.type = "tuple" /\ Len(v.val) = n

\* C19: the values unpack_settings returns are typed and valid.
C19_UnpackedValuesValid ==
    set_pc = "unpacked" =>
       LET nonNegInt(v) == v.type = "int" /\ v.val.num >= 0
           posReal(v)   == IsNumber(v) /\ v.val.num > 0
           int(v)       == v.type = "int"
       IN  /\ posReal(Unpacked("target_fps"))
           /\ IsTuple(Unpacked("radius_rgb"), 3)
           /\ \A i \in 1..3 : nonNegInt(Unpacked("radius_rgb").val[i])
           /\ IsTuple(Unpacked("sigma_rgb"), 3)
           /\ \A i \in 1..3 : posReal(Unpacked("sigma_rgb").val[i])
           /\ IsTuple(Unpacked("overlay_size"), 2)
           /\ \A i \in 1..2 : int(Unpacked("overlay_size").val[i])
           /\ IsTuple(Unpacked("overlay_pos"), 2)
           /\ \A i \in 1..2 : int(Unpacked("overlay_pos").val[i])
           /\ Unpacked("force_rgb").type = "bool"
           /\ Unpacked("capture_format").type = "str"
           /\ Unpacked("shader_path").type = "str"

LoadTypeOK ==
    /\ set_pc \in {"idle", "reading", "loaded", "unpacked"}
    /\ nlines \in 0..(MaxLines + 1)
    /\ DOMAIN settings \subseteq FileKeys

\* --------------------------- render_blur.py and the blur shader (ConvSpec)

\* The texels of the smallest image in which both passes mix texels.
ConvPixels == {<<1, 1>>, <<2, 1>>, <<1, 2>>, <<2, 2>>}

\* The channel values of an uploaded frame.
PixelLevels == {0, 1, MaxLevel \div 2, MaxLevel}

\* The sigmas of the default settings.
ConvSigmas == {PyFloat(1, 1000), PyFloat(1, 1), PyFloat(3, 1)}

\* exp(-d*d / (2*sigma*sigma)) in eighths, rounded, for the three sigmas.
GaussWeight(sigma, d) ==
    CASE sigma = PyFloat(1, 1000) -> IF d = 0 THEN 8 ELSE 0
      [] sigma = PyFloat(1, 1)    -> IF d = 0 THEN 8 ELSE IF d = 1 THEN 5 ELSE 1
      [] sigma = PyFloat(3, 1)    -> IF d = 0 THEN 8 ELSE IF d = 1 THEN 8 ELSE 6

Dist(k) == IF k < 0 THEN -k ELSE k

\* The sum of the 2*r+1 weights.
WeightSum(sigma, r) == GaussWeight(sigma, 0) + 2 * (IF r >= 1 THEN GaussWeight(sigma, 1) ELSE 0)
                       + 2 * (IF r >= 2 THEN GaussWeight(sigma, 2) ELSE 0)

\* A texture fetch at (x, y) with GL_CLAMP_TO_EDGE in both directions.
Tap(img, x, y) ==
    LET cx == IF x < 1 THEN 1 ELSE IF x > 2 THEN 2 ELSE x
        cy == IF y < 1 THEN 1 ELSE IF y > 2 THEN 2 ELSE y
    IN  img[<<cx, cy>>]

\* The store of n/d into a channel of a GL_RGB8 texture: the nearest level,
\* a tie going up or down as the implementation rounds.
Quantise(n, d, tieUp) ==
    LET q == IF tieUp THEN (2 * n + d) \div (2 * d) ELSE (2 * n + d - 1) \div (2 * d)
    IN  IF q > MaxLevel THEN MaxLevel ELSE q

\* One blur pass over img along dir (<<1, 0>> for the H program, <<0, 1>>
\* for the V program), stored into an RGB8 texture.
BlurPass(img, dir, r, sigma, tieUp) ==
    LET term(p, k) == GaussWeight(sigma, Dist(k)) * Tap(img, p[1] + k * dir[1], p[2] + k * dir[2])
        sum(p) == term(p, 0)
                  + (IF r >= 1 THEN term(p, -1) + term(p, 1) ELSE 0)
                  + (IF r >= 2 THEN term(p, -2) + term(p, 2) ELSE 0)
    IN  [p \in ConvPixels |-> Quantise(sum(p), WeightSum(sigma, r), tieUp)]

ConvInit ==
    /\ MainIdle
    /\ PaceIdle
    /\ RendIdle
    /\ LoadIdle
    /\ DxIdle
    /\ PassIdle
    /\ \E img \in [ConvPixels -> PixelLevels], r \in 0..MaxRadius,
          s \in ConvSigmas, t \in BOOLEAN :
          conv = [pc |-> "upload", frame |-> img, radius |-> r, sigma |-> s,
                  tieUp |-> t]

\* process, line 254: upload_frame writes the frame into tex_in.
ConvUpload ==
    /\ conv.pc = "upload"
    /\ conv' = [pc |-> "horizontal", frame |-> conv.frame, radius |-> conv.radius,
                sigma |-> conv.sigma, tieUp |-> conv.tieUp, tex_in |-> conv.frame]
    /\ UNCHANGED outsideConv

\* process, lines 262-271: the H program samples tex_in and draws into
\* fbo_temp, whose colour texture is tex_temp.
ConvHorizontal ==
    /\ conv.pc = "horizontal"
    /\ conv' = [pc |-> "vertical", frame |-> conv.frame, radius |-> conv.radius,
                sigma |-> conv.sigma, tieUp |-> conv.tieUp, tex_in |-> conv.tex_in,
                tex_temp |-> BlurPass(conv.tex_in, <<1, 0>>, conv.radius,
                                      conv.sigma, conv.tieUp)]
    /\ UNCHANGED outsideConv

\* Mutant: the V program samples tex_in instead of tex_temp.
ConvVertical_samplesInput ==
    /\ conv.pc = "vertical"
    /\ conv' = [pc |-> "done", frame |-> conv.frame, radius |-> conv.radius,
                sigma |-> conv.sigma, tieUp |-> conv.tieUp, tex_in |-> conv.tex_in,
                tex_temp |-> conv.tex_temp,
                tex_out |-> BlurPass(conv.tex_in, <<0, 1>>, conv.radius,
                                     conv.sigma, conv.tieUp)]
    /\ UNCHANGED outsideConv

\* process, lines 273-282: the V program samples tex_temp and draws into
\* fbo_out, whose colour texture is tex_out.
ConvVertical ==
    /\ conv.pc = "vertical"
    /\ conv' = [pc |-> "done", frame |-> conv.frame, radius |-> conv.radius,
                sigma |-> conv.sigma, tieUp |-> conv.tieUp, tex_in |-> conv.tex_in,
                tex_temp |-> conv.tex_temp,
                tex_out |-> BlurPass(conv.tex_temp, <<0, 1>>, conv.radius,
                                     conv.sigma, conv.tieUp)]
    /\ UNCHANGED outsideConv

ConvNext ==
    \/ ConvUpload
    \/ ConvHorizontal
    \/ ConvVertical

ConvSpec == ConvInit /\ [][ConvNext]_vars

\* The full 2-D convolution of img with the product kernel, stored once.
Direct2D(img, r, sigma, tieUp) ==
    LET row(p, j) == (IF r >= 1 THEN GaussWeight(sigma, 1) * (Tap(img, p[1] - 1, p[2] + j) + Tap(img, p[1] + 1, p[2] + j)) ELSE 0)
                     + (IF r >= 2 THEN GaussWeight(sigma, 2) * (Tap(img, p[1] - 2, p[2] + j) + Tap(img, p[1] + 2, p[2] + j)) ELSE 0)
                     + GaussWeight(sigma, 0) * Tap(img, p[1], p[2] + j)
        sum(p) == GaussWeight(sigma, 0) * row(p, 0)
                  + (IF r >= 1 THEN GaussWeight(sigma, 1) * (row(p, -1) + row(p, 1)) ELSE 0)
                  + (IF r >= 2 THEN GaussWeight(sigma, 2) * (row(p, -2) + row(p, 2)) ELSE 0)
    IN  [p \in ConvPixels |->
            Quantise(sum(p), WeightSum(sigma, r) * WeightSum(sigma, r), tieUp)]

\* The two passes in the other order: vertical first, then horizontal.
VerticalFirst(img, r, sigma, tieUp) ==
    BlurPass(BlurPass(img, <<0, 1>>, r, sigma, tieUp), <<1, 0>>, r, sigma, tieUp)

\* Two images differ by at most tol levels in every texel.
Within(a, b, tol) == \A p \in ConvPixels : a[p] - b[p] <= tol /\ b[p] - a[p] <= tol

\* C20 as stated: the output of process is within one level of the direct
\* 2-D convolution of the frame, and the passes in the other order give the
\* same output.
C20_SeparableAndOrderFree ==
    conv.pc = "done" =>
       /\ Within(conv.tex_out, Direct2D(conv.frame, conv.radius, conv.sigma, conv.tieUp), 1)
       /\ conv.tex_out = VerticalFirst(conv.frame, conv.radius, conv.sigma, conv.tieUp)

\* C20, amended: the output of process is within one level of the direct
\* 2-D convolution of the frame and within one level of the output of the
\* passes in the other order.
C20_SeparableWithinRounding ==
    conv.pc = "done" =>
       /\ Within(conv.tex_out, Direct2D(conv.frame, conv.radius, conv.sigma, conv.tieUp), 1)
       /\ Within(conv.tex_out,
                 VerticalFirst(conv.frame, conv.radius, conv.sigma, conv.tieUp), 1)

C20_Witness ==
    /\ conv.pc = "done"
    /\ conv.radius = 1
    /\ conv.tex_out # conv.frame
    /\ conv.tex_out # VerticalFirst(conv.frame, conv.radius, conv.sigma, conv.tieUp)
    /\ conv.tex_out # Direct2D(conv.frame, conv.radius, conv.sigma, conv.tieUp)

\* C22: the exclusion attempt is the one step that leaves "exclude", which
\* main passes once and before any capture call; no other step changes
\* excluded, so every telemetry report of a presenting iteration prints the
\* value the attempt returned.
C22_ExcludedSetOnceBeforeCapture ==
    /\ [][excluded' # excluded => (pc = "exclude" /\ pc' = "await_top")]_vars
    /\ [][pc' = "exclude" => pc \in {"create_window", "exclude"}]_vars
    /\ [][pc = "create_window" => pc' # "create_window"]_vars
    /\ [](pc \in {"start", "create_window", "exclude"} =>
             (~_capture.live /\ skipArg = {} /\ nframes = 0 /\ ~excluded))

C22_Witness ==
    /\ pc = "present"
    /\ excluded
    /\ nframes = MaxFrames
    /\ \E i \in FrameIds : log[i].presented > 0

\* C24: once main has made a capture call and has returned or raised, the
\* module-level capture instance is stopped and cleared.
C24_CaptureReleasedAtExit ==
    (pc \in EndPcs /\ skipArg # {}) =>
        (~_capture.live /\ ~_capture.camera /\ ~_capture.running)

\* DXCamCapture.get_frame, lines 65-70: the channel order of the frames it
\* returns: DXcam's BGR(A) unless rgb asks for the conversion to RGB.
DeliveredOrder(rgb) == IF rgb THEN "rgb" ELSE "bgr"

\* C23: the negotiated input_format has the channel count of the first
\* frame and the channel order of the frames get_frame delivers.
C23_FormatAgreesWithFrames ==
    input_format # "unset" =>
       /\ (input_format \in {GL_RGBA, GL_BGRA}) = (first.ch = 4)
       /\ (input_format \in {GL_RGB, GL_RGBA}) = (DeliveredOrder(force_rgb) = "rgb")

\* C25: unpack_settings returns ten values in the documented order; each is
\* the default when the key is absent, or when the key is one of the four
\* tuple keys and the value is not a tuple of the default's length, and the
\* loaded value otherwise; no other key has any effect.
C25_UnpackReturnsTenInOrder ==
    set_pc = "unpacked" =>
       LET order == <<"target_fps", "force_rgb", "capture_format", "debug_gl_finish",
                      "gl_finish_interval", "overlay_size", "overlay_pos",
                      "radius_rgb", "sigma_rgb", "shader_path">>
           len == [overlay_size |-> 2, overlay_pos |-> 2, radius_rgb |-> 3,
                   sigma_rgb |-> 3]
       IN  /\ DOMAIN unpacked = 1..10
           /\ \A i \in 1..10 :
                 LET k == order[i]
                 IN  unpacked[i] =
                        IF k \notin DOMAIN settings THEN Defaults[k]
                        ELSE IF k \in DOMAIN len
                                /\ ~(settings[k].type = "tuple"
                                     /\ Len(settings[k].val) = len[k])
                        THEN Defaults[k]
                        ELSE settings[k]

C25_Witness ==
    /\ set_pc = "unpacked"
    /\ DOMAIN settings = {"unknown_key", "radius_rgb"}
    /\ settings["radius_rgb"].type = "tuple"
    /\ Len(settings["radius_rgb"].val) = 4
    /\ unpacked[8] = Defaults["radius_rgb"]
    /\ unpacked[1] = IntV(60)

\* ------------------------------------------- dxgi_capture.py (DxSpec)

\* DXCamCapture.start when dxcam.create returned None: camera is None, the
\* RuntimeError is raised and _running keeps its value.
DXCamCapture_startFails(inst) == [inst EXCEPT !.camera = FALSE]

\* DXCamCapture.get_frame(rgb) when the backend holds raw (None: nothing
\* yet): "None", "frame", or "raise" where the conversion raises.
DXCamCapture_get_frame(inst, rgb, raw) ==
    IF ~inst.camera THEN "None"
    ELSE IF IsNone(raw) THEN "None"
    ELSE IF ConvertRaises(raw, rgb) THEN "raise"
    ELSE "frame"

\* Mutant: stop resets the flags but leaves the camera in place.
DXCamCapture_stop_keepsCamera(inst) ==
    IF ~inst.camera THEN inst ELSE [inst EXCEPT !.running = FALSE]

\* DXCamCapture.stop: nothing when camera is None; else camera.stop() (if
\* _running), camera = None, _running = False.
DXCamCapture_stop(inst) ==
    IF ~inst.camera THEN inst ELSE [inst EXCEPT !.camera = FALSE, !.running = FALSE]

\* Mutant: the module creates a new instance whenever target_fps differs
\* from that of the instance it holds.
EnsureCapture_perFps(cap, fps, camOK) ==
    IF cap.live /\ cap.target_fps = fps THEN cap
    ELSE IF camOK THEN DXCamCapture_start(DXCamCapture(fps))
    ELSE DXCamCapture_startFails(DXCamCapture(fps))

\* capture_desktop_excluding_hwnd, lines 104-106: _capture after the
\* creation and start of the instance, which happen when _capture is None;
\* the instance is assigned before start() runs.
EnsureCapture(cap, fps, camOK) ==
    IF cap.live THEN cap
    ELSE IF camOK THEN DXCamCapture_start(DXCamCapture(fps))
    ELSE DXCamCapture_startFails(DXCamCapture(fps))

\* The frames the backend can hold for a get_frame call.
DxRaw == {None} \cup {MkFrame(1, r, FALSE, FALSE) : r \in RawShapes}

DxInit ==
    /\ MainIdle
    /\ PaceIdle
    /\ RendIdle
    /\ LoadIdle
    /\ ConvIdle
    /\ PassIdle
    /\ \E fps \in {0, 30} :
          dx = [pc |-> "run", cap |-> NoCapture, output_idx |-> 0,
                inst |-> DXCamCapture(fps), ret |-> "unset", iret |-> "unset",
                calls |-> 0, made |-> 0, cleared |-> 0, ops |-> 0,
                camStarts |-> 0, camStops |-> 0]

\* capture_desktop_excluding_hwnd(output_idx, target_fps, rgb).
DxCapture ==
    /\ dx.pc = "run"
    /\ dx.calls < MaxCalls + 2
    /\ \E idx \in {0, 1}, fps \in {0, 30}, rgb \in BOOLEAN, camOK \in BOOLEAN,
          raw \in DxRaw :
          LET c == EnsureCapture(dx.cap, fps, camOK)
              fresh == c # dx.cap
          IN  dx' = [dx EXCEPT
                       !.cap = c,
                       !.output_idx = IF fresh THEN idx ELSE @,
                       !.made = IF fresh THEN @ + 1 ELSE @,
                       !.ret = IF fresh /\ ~c.camera THEN "raise"
                               ELSE DXCamCapture_get_frame(c, rgb, raw),
                       !.calls = @ + 1]
    /\ UNCHANGED outsideDx

\* cleanup(): stops and clears the module's instance, if there is one.
DxCleanup ==
    /\ dx.pc = "run"
    /\ dx.calls < MaxCalls + 2
    /\ dx' = [dx EXCEPT
                !.cap = IF dx.cap.live THEN NoCapture ELSE @,
                !.cleared = IF dx.cap.live THEN @ + 1 ELSE @,
                !.ret = IF dx.cap.live
                        THEN (IF DXCamCapture_stop(dx.cap).camera THEN "kept" ELSE "stopped")
                        ELSE "unset",
                !.calls = @ + 1]
    /\ UNCHANGED outsideDx

\* inst.start().
DxStart ==
    /\ dx.pc = "run"
    /\ dx.ops < MaxCalls + 2
    /\ \E camOK \in BOOLEAN :
          dx' = [dx EXCEPT
                   !.inst = IF camOK THEN DXCamCapture_start(@)
                            ELSE DXCamCapture_startFails(@),
                   !.camStarts = IF camOK /\ dx.inst.target_fps # 0 THEN @ + 1 ELSE @,
                   !.iret = IF camOK THEN "started" ELSE "RuntimeError",
                   !.ops = @ + 1]
    /\ UNCHANGED outsideDx

\* inst.get_frame(rgb).
DxGetFrame ==
    /\ dx.pc = "run"
    /\ dx.ops < MaxCalls + 2
    /\ \E rgb \in BOOLEAN, raw \in DxRaw :
          dx' = [dx EXCEPT !.iret = DXCamCapture_get_frame(dx.inst, rgb, raw),
                           !.ops = @ + 1]
    /\ UNCHANGED outsideDx

\* inst.stop().
DxStop ==
    /\ dx.pc = "run"
    /\ dx.ops < MaxCalls + 2
    /\ dx' = [dx EXCEPT
                !.inst = DXCamCapture_stop(@),
                !.camStops = IF dx.inst.camera /\ dx.inst.running THEN @ + 1 ELSE @,
                !.iret = "stop",
                !.ops = @ + 1]
    /\ UNCHANGED outsideDx

DxNext ==
    \/ DxCapture
    \/ DxCleanup
    \/ DxStart
    \/ DxGetFrame
    \/ DxStop

DxSpec == DxInit /\ [][DxNext]_vars

C27_HeldInstanceIsStarted ==
    dx.cap.live => dx.cap.camera

PassBindings ==
    {[viewport |-> v, fb |-> o, prog |-> o, vao |-> o, active |-> a,
      tex |-> [u \in {0, 1} |-> t]] :
        v \in {<<0, 0, 5, 5>>, <<1, 1, 2, 2>>}, o \in {0, 9}, a \in {0, 1}, t \in {0, 9}}

\* The bindings the constructor leaves: everything unbound, unit 0 active.
FreshBindings ==
    [viewport |-> <<0, 0, 5, 5>>, fb |-> 0, prog |-> 0, vao |-> 0, active |-> 0,
     tex |-> [u \in {0, 1} |-> 0]]

PassInit ==
    /\ MainIdle
    /\ PaceIdle
    /\ RendIdle
    /\ LoadIdle
    /\ ConvIdle
    /\ DxIdle
    /\ \E fmt \in {GL_RGB, GL_BGRA} :
          pass = [pc |-> "idle",
                  eng |-> GaussianBlurRenderer(NoGL, MaxDim, 1, fmt).eng,
                  kind |-> "none", frame |-> None, n |-> 0,
                  bind |-> FreshBindings, entry |-> FreshBindings, prev_viewport |-> <<0, 0, 0, 0>>,
                  holds |-> [tex_in |-> 0, tex_temp |-> 0, tex_out |-> 0],
                  ret |-> 0, raised |-> FALSE]

\* The caller, with any bindings it has set up meanwhile, calls
\* process(frame) or upload_frame(frame).
PassCall ==
    /\ pass.pc = "idle"
    /\ pass.n < MaxCalls
    /\ \E k \in {"process", "upload_frame"}, f \in RendFrames, b \in PassBindings :
          pass' = [pass EXCEPT !.pc = "upload", !.kind = k, !.frame = f,
                               !.n = @ + 1, !.bind = b, !.entry = b,
                               !.ret = 0, !.raised = FALSE]
    /\ UNCHANGED outsidePass

\* Mutant: upload_frame counts and binds before it checks the frame.
PassUpload_countsFirst ==
    /\ pass.pc = "upload"
    /\ IF UploadResult(pass.eng, pass.frame) # "ok"
       THEN pass' = [pass EXCEPT !.pc = "idle", !.raised = TRUE,
                                 !.eng._upload_count = @ + 1,
                                 !.bind.tex[pass.bind.active] = pass.eng.tex_in]
       ELSE pass' = [pass EXCEPT
                       !.pc = IF pass.kind = "process" THEN "horizontal" ELSE "idle",
                       !.eng = upload_frame(@, pass.frame),
                       !.holds.tex_in = pass.n,
                       !.bind.tex[pass.bind.active] = 0]
    /\ UNCHANGED outsidePass

\* upload_frame, lines 213-238: the checks, which raise ValueError, then
\* bind tex_in, count, glTexSubImage2D, unbind.
PassUpload ==
    /\ pass.pc = "upload"
    /\ IF UploadResult(pass.eng, pass.frame) # "ok"
       THEN pass' = [pass EXCEPT !.pc = "idle", !.raised = TRUE]
       ELSE pass' = [pass EXCEPT
                       !.pc = IF pass.kind = "process" THEN "horizontal" ELSE "idle",
                       !.eng = upload_frame(@, pass.frame),
                       !.holds.tex_in = pass.n,
                       !.bind.tex[pass.bind.active] = 0]
    /\ UNCHANGED outsidePass

\* Mutant: the horizontal pass draws into fbo_out.
PassHorizontal_intoOutput ==
    /\ pass.pc = "horizontal"
    /\ pass' = [pass EXCEPT
                  !.pc = "vertical",
                  !.prev_viewport = pass.bind.viewport,
                  !.bind = [@ EXCEPT !.viewport = <<0, 0, pass.eng.w, pass.eng.h>>,
                                     !.fb = pass.eng.fbo_out,
                                     !.prog = pass.eng.prog_h,
                                     !.active = 0,
                                     !.tex[0] = pass.eng.tex_in,
                                     !.vao = 0],
                  !.holds.tex_out = pass.holds.tex_in]
    /\ UNCHANGED outsidePass

\* process, lines 255-271: the viewport is saved and set to the surface
\* size; fbo_temp and the H program are bound, tex_in is bound to unit 0 and
\* the pass is drawn (with the VAO bound, then unbound) into tex_temp.
PassHorizontal ==
    /\ pass.pc = "horizontal"
    /\ pass' = [pass EXCEPT
                  !.pc = "vertical",
                  !.prev_viewport = pass.bind.viewport,
                  !.bind = [@ EXCEPT !.viewport = <<0, 0, pass.eng.w, pass.eng.h>>,
                                     !.fb = pass.eng.fbo_temp,
                                     !.prog = pass.eng.prog_h,
                                     !.active = 0,
                                     !.tex[0] = pass.eng.tex_in,
                                     !.vao = 0],
                  !.holds.tex_temp = pass.holds.tex_in]
    /\ UNCHANGED outsidePass

\* process, lines 273-282: fbo_out and the V program are bound, tex_temp is
\* bound to unit 0 and the pass is drawn into tex_out.
PassVertical ==
    /\ pass.pc = "vertical"
    /\ pass' = [pass EXCEPT
                  !.pc = "return",
                  !.bind = [@ EXCEPT !.fb = pass.eng.fbo_out,
                                     !.prog = pass.eng.prog_v,
                                     !.active = 0,
                                     !.tex[0] = pass.eng.tex_temp,
                                     !.vao = 0],
                  !.holds.tex_out = pass.holds.tex_temp]
    /\ UNCHANGED outsidePass

\* Mutant: process leaves the surface-sized viewport in place.
PassReturn_keepsViewport ==
    /\ pass.pc = "return"
    /\ pass' = [pass EXCEPT
                  !.pc = "idle",
                  !.bind = [@ EXCEPT !.tex[pass.bind.active] = 0, !.prog = 0, !.fb = 0],
                  !.ret = pass.eng.tex_out]
    /\ UNCHANGED outsidePass

\* process, lines 284-298: texture, program and framebuffer are unbound,
\* the saved viewport is set again and tex_out is returned.
PassReturn ==
    /\ pass.pc = "return"
    /\ pass' = [pass EXCEPT
                  !.pc = "idle",
                  !.bind = [@ EXCEPT !.tex[pass.bind.active] = 0, !.prog = 0, !.fb = 0,
                                     !.viewport = pass.prev_viewport],
                  !.ret = pass.eng.tex_out]
    /\ UNCHANGED outsidePass

PassNext ==
    \/ PassCall
    \/ PassUpload
    \/ PassHorizontal
    \/ PassVertical
    \/ PassReturn

PassSpec == PassInit /\ [][PassNext]_vars

\* C21: in every process call the horizontal pass draws tex_in as uploaded
\* for this call into tex_temp, the vertical pass draws that tex_temp into
\* tex_out, and the handle is returned only after both; the steps of a call
\* follow each other in this order.
C21_PassesInOrder ==
    /\ [](pass.pc \in {"horizontal", "vertical", "return"} =>
             (pass.kind = "process" /\ pass.holds.tex_in = pass.n /\ pass.ret = 0))
    /\ [](pass.pc \in {"vertical", "return"} => pass.holds.tex_temp = pass.n)
    /\ [](pass.pc = "return" => pass.holds.tex_out = pass.n)
    /\ [](pass.ret # 0 => (pass.ret = pass.eng.tex_out /\ pass.holds.tex_out = pass.n
                           /\ pass.holds.tex_temp = pass.n))
    /\ [][pass'.holds.tex_temp # pass.holds.tex_temp =>
             (pass.pc = "horizontal" /\ pass.bind'.tex[0] = pass.eng.tex_in
              /\ pass.bind'.fb = pass.eng.fbo_temp)]_vars
    /\ [][pass'.holds.tex_out # pass.holds.tex_out =>
             (pass.pc = "vertical" /\ pass.bind'.tex[0] = pass.eng.tex_temp
              /\ pass.bind'.fb = pass.eng.fbo_out)]_vars

C21_Witness ==
    /\ pass.n = 2
    /\ pass.ret = pass.eng.tex_out
    /\ pass.holds = [tex_in |-> 2, tex_temp |-> 2, tex_out |-> 2]
    /\ pass.eng._upload_count = 2

C30_RejectionTouchesNothing ==
    /\ [][pass'.raised =>
             (pass'.holds = pass.holds /\ pass'.bind = pass.bind
              /\ pass'.eng = pass.eng /\ pass'.ret = 0)]_vars
    /\ [][(pass.pc = "upload" /\ UploadResult(pass.eng, pass.frame) # "ok") =>
             (pass'.raised /\ pass'.pc = "idle")]_vars

C30_Witness ==
    /\ pass.raised
    /\ pass.n = 2
    /\ pass.holds.tex_out = 1
    /\ pass.eng._upload_count = 1
    /\ UploadResult(pass.eng, pass.frame) = "size"
    /\ pass.bind.tex[1] = 9

=============================================================================
